---- MODULE Spec2Model ----
(***************************************************************************)
(* A model of the unsizing experiment: the capability traits of            *)
(* src/src/unsize.rs (Unsize, StableUnsize, FromMetadataUnsize and their   *)
(* blanket impls), the pointer coercion rules of src/src/coerce_unsized.rs,*)
(* the narrowing impls of src/src/dispatch_from_dyn.rs and the trait impls *)
(* the tests of src/src/tests.rs declare.                                  *)
(*                                                                         *)
(* Memory is a small set of objects, each at its own address; a Vec keeps  *)
(* its elements in a separate buffer.  A handle is a pointer of some kind  *)
(* (reference, raw address, Box, Arc, possibly inside Pin/Cell) with the   *)
(* pointee type, the data address and the descriptor metadata.  `chain` is *)
(* the handle a program holds and the handles it got by coercing it; a Box *)
(* or an Arc in it owns the value, and `rc` is the strong count of the     *)
(* Arc's allocation.                                                       *)
(*                                                                         *)
(* Spec is the programs over arrays, Vecs and i32 values; NarrowSpec those *)
(* that make polymorphic handles and narrow them, AdtSpec those that       *)
(* coerce structs through their last field, FixedSpec those that also use  *)
(* the fixed-size string buffers.                                          *)
(***************************************************************************)
EXTENDS Integers, Sequences, FiniteSets, TLC

VARIABLES objs, chain, rc

vars == <<objs, chain, rc>>

\* ---------------------------------------------------------------- bounds
MaxObjs == 2
MaxLen == 2
MaxChain == 3
MaxWrap == 1
MaxRc == 2

\* Element values are opaque to every rule (T is a type parameter): each is the
\* contents of an inner sequence, so a sequence of them is a nested sequence.
Values == {<<0>>, <<0, 1>>}
\* The i32 values behind the polymorphic handles.
IntValues == {0, 7}
ObjIds == 1..MaxObjs

\* ----------------------------------------------------------------- types
Ty(name, n) == [name |-> name, n |-> n]
ArrayTy(n) == Ty("Array", n)
VecTy == Ty("Vec", 0)
I32Ty == Ty("I32", 0)
SliceTy == Ty("Slice", 0)
DynTraitTy == Ty("DynTrait", 0)
DynSuperTy == Ty("DynSuper", 0)
\* A second, fieldless implementer of the traits.
StructTy == Ty("Struct", 0)
StrTy == Ty("Str", 0)
\* FixedString<N>([u8; N]) and FixedStringWithLen<N>(usize, [u8; N]).
FixedStringTy(n) == Ty("FixedString", n)
FixedStringWithLenTy(n) == Ty("FixedStringWithLen", n)
\* struct Foo<T: ?Sized> { field: Bar<T> } and struct Bar<T: ?Sized> { field: T }.
FooTy(X) == Ty("Foo<" \o X.name \o ">", X.n)
BarTy(X) == Ty("Bar<" \o X.name \o ">", X.n)

\* The type of the last (only) field of a Foo<X> or a Bar<X>.
LastField(S) ==
    CASE S.name = "Foo<Array>" -> BarTy(ArrayTy(S.n))
      [] S.name = "Foo<Slice>" -> BarTy(SliceTy)
      [] S.name = "Bar<Array>" -> ArrayTy(S.n)
      [] S.name = "Bar<Slice>" -> SliceTy
      [] OTHER -> S

TargetTys == {SliceTy, DynTraitTy, DynSuperTy, StrTy, FooTy(SliceTy), BarTy(SliceTy)}

\* Types whose pointers are thin: <S as Pointee>::Metadata = ().
Sized(S) == S \notin TargetTys

\* <T as Pointee>::Metadata values: (), a length, a vtable (trait, type).
UnitMeta == [k |-> "unit", n |-> 0, tr |-> "-", ty |-> "-"]
LenMeta(n) == [k |-> "len", n |-> n, tr |-> "-", ty |-> "-"]
VtMeta(tr, ty) == [k |-> "vt", n |-> 0, tr |-> tr, ty |-> ty]
\* No metadata came back: the function that was to compute it panicked.
PanicMeta == [k |-> "panic", n |-> 0, tr |-> "-", ty |-> "-"]

\* --------------------------------------------------------------- memory
HdrAddr(i) == 10 * i
\* Where the allocator may put the buffer of a Vec at address HdrAddr(i): a first
\* place, and a second one a growing buffer may move to.
FirstBuf(i) == 100 + 10 * i
BufAddrs(i) == {FirstBuf(i), 200 + 10 * i}

NilObj == [st |-> "nil", ty |-> I32Ty, elems |-> <<>>, val |-> 0, cap |-> 0,
           buf |-> 0]
DeadObj == [NilObj EXCEPT !.st = "dead"]

Seqs(n) == UNION {[1..k -> Values] : k \in 0..n}

\* The object a pointer of type T at address a designates, 0 when none is live.
ObjAt(mem, a, T) ==
    IF \E i \in ObjIds : HdrAddr(i) = a /\ mem[i].st = "live" /\ mem[i].ty = T
    THEN CHOOSE i \in ObjIds : HdrAddr(i) = a /\ mem[i].st = "live" /\ mem[i].ty = T
    ELSE 0

\* Where the elements of a sequence-like object start.
ElemBase(mem, i) ==
    CASE mem[i].ty = VecTy -> mem[i].buf
      [] mem[i].ty.name = "FixedStringWithLen" -> HdrAddr(i) + 8
      [] OTHER -> HdrAddr(i)

\* The types that hold a sequence of elements (or bytes).
SeqLike == {"Array", "Vec", "FixedString", "FixedStringWithLen", "Foo<Array>",
            "Bar<Array>"}

\* Reading n elements at address a: the initialized elements there, or <<<<-1>>>>
\* when the range is not n initialized elements of a live object.
ReadSlice(mem, a, n) ==
    IF \E i \in ObjIds : mem[i].st = "live" /\ mem[i].ty.name \in SeqLike
                         /\ ElemBase(mem, i) = a /\ n <= Len(mem[i].elems)
    THEN LET i == CHOOSE i \in ObjIds :
                      mem[i].st = "live" /\ mem[i].ty.name \in SeqLike
                      /\ ElemBase(mem, i) = a /\ n <= Len(mem[i].elems)
         IN SubSeq(mem[i].elems, 1, n)
    ELSE <<<<-1>>>>

\* ------------------------------------------------------ capability tiers
\* The impl a program declares (or the compiler would) for each (source,
\* target) pair.
DeclaredTier(S, T) ==
    CASE S.name = "Array" /\ T = SliceTy -> "FromMetadataUnsize"
      [] S = VecTy /\ T = SliceTy -> "Unsize"
      [] S = I32Ty /\ T = DynTraitTy -> "ConstUnsize"
      [] S = I32Ty /\ T = DynSuperTy -> "ConstUnsize"
      [] S = DynTraitTy /\ T = DynSuperTy -> "FromMetadataUnsize"
      [] S = StructTy /\ T \in {DynTraitTy, DynSuperTy} -> "ConstUnsize"
      [] S.name = "FixedString" /\ T = StrTy -> "ConstUnsize"
      [] S.name = "FixedStringWithLen" /\ T = StrTy -> "Unsize"
      [] S.name = "Foo<Array>" /\ T = FooTy(SliceTy) -> "ConstUnsize"
      [] S.name = "Bar<Array>" /\ T = BarTy(SliceTy) -> "ConstUnsize"
      [] S = StrTy /\ T = DynTraitTy -> "ConstUnsize"
      [] OTHER -> "None"

\* A variant that asks nothing of the implementing type.
ConstUnsizeBound_any(S) == TRUE

\* What ConstUnsize asks of the implementing type: Self::Metadata = ().
ConstUnsizeBound(S) == Sized(S)

\* The native impl of each (source, target) pair: the declared one, when the
\* declaration is accepted.
NativeTier(S, T) ==
    IF DeclaredTier(S, T) = "ConstUnsize" /\ ~ConstUnsizeBound(S)
    THEN "None"
    ELSE DeclaredTier(S, T)

\* A variant that is one short of N.
Array_target_metadata_short(S, m) == LenMeta(IF S.n > 0 THEN S.n - 1 ELSE 0)

\* impl FromMetadataUnsize<[T]> for [T; N]
Array_target_metadata(S, m) == LenMeta(S.n)

\* The name a vtable carries for its concrete type.
TypeName(S) == IF S = I32Ty THEN "i32" ELSE S.name

RECURSIVE ConstUnsize_TARGET_METADATA(_, _)

\* impl ConstUnsize<str> for FixedString<N>
FixedString_TARGET_METADATA(S, T) == LenMeta(S.n)

\* A variant that takes the metadata of the sized struct itself.
Bar_TARGET_METADATA_unit(S, T) == UnitMeta

\* impl ConstUnsize<Bar<U>> for Bar<T>: <T as ConstUnsize<U>>::TARGET_METADATA
Bar_TARGET_METADATA(S, T) == ConstUnsize_TARGET_METADATA(LastField(S), LastField(T))

\* impl ConstUnsize<Foo<U>> for Foo<T>: <Bar<T> as ConstUnsize<Bar<U>>>::TARGET_METADATA
Foo_TARGET_METADATA(S, T) == ConstUnsize_TARGET_METADATA(LastField(S), LastField(T))

\* <S as ConstUnsize<T>>::TARGET_METADATA by impl; for a sized implementer of a
\* trait (impl ConstUnsize<dyn Trait> for i32) the vtable of that type.
ConstUnsize_TARGET_METADATA(S, T) ==
    CASE S.name = "Array" -> Array_target_metadata(S, UnitMeta)
      [] S.name = "FixedString" -> FixedString_TARGET_METADATA(S, T)
      [] S.name = "Bar<Array>" -> Bar_TARGET_METADATA(S, T)
      [] S.name = "Foo<Array>" -> Foo_TARGET_METADATA(S, T)
      [] OTHER -> VtMeta(IF T = DynTraitTy THEN "Trait" ELSE "Super", TypeName(S))

\* A variant that hands the narrow interface's vtable on unchanged.
DynTrait_target_metadata_same(m) == m

\* impl FromMetadataUnsize<dyn Super> for dyn Trait
DynTrait_target_metadata(m) == VtMeta("Super", "i32")

FromMetadataUnsize_target_metadata(S, T, m) ==
    CASE S.name = "Array" -> Array_target_metadata(S, m)
      [] NativeTier(S, T) = "ConstUnsize" -> ConstUnsize_TARGET_METADATA(S, T)
      [] S = DynTraitTy -> DynTrait_target_metadata(m)
      [] OTHER -> UnitMeta

\* A raw pointer: pointee type, address, metadata.
Ptr(h) == [ty |-> h.ty, addr |-> h.addr, meta |-> h.meta]

\* A variant that reads the length of the instance behind the pointer.
StableUnsize_target_metadata_read(mem, p, T) ==
    IF p.ty.name = "Array"
    THEN (IF ObjAt(mem, p.addr, p.ty) # 0
          THEN LenMeta(Len(mem[ObjAt(mem, p.addr, p.ty)].elems))
          ELSE LenMeta(0))
    ELSE FromMetadataUnsize_target_metadata(p.ty, T, p.meta)

\* impl StableUnsize<Target> for T: FromMetadataUnsize<Target>
StableUnsize_target_metadata(mem, p, T) ==
    FromMetadataUnsize_target_metadata(p.ty, T, p.meta)

\* A variant that returns the source's own metadata.
Stable_Unsize_target_metadata_src(mem, p, T) == p.meta

\* impl Unsize<Target> for T: StableUnsize<Target>
Stable_Unsize_target_metadata(mem, p, T) == StableUnsize_target_metadata(mem, p, T)

\* A variant that projects past the first word of the source.
Stable_Unsize_target_data_address_projected(mem, p, T) == p.addr + 1

Stable_Unsize_target_data_address(mem, p, T) == p.addr

\* A variant that takes the capacity for the length.
Vec_target_metadata_cap(mem, p, ub) ==
    IF ObjAt(mem, p.addr, p.ty) # 0
    THEN LenMeta(mem[ObjAt(mem, p.addr, p.ty)].cap)
    ELSE LenMeta(ub.n)

\* impl Unsize<[T]> for Vec<T>; ub is what a read of a dead instance yields.
Vec_target_metadata(mem, p, ub) ==
    IF ObjAt(mem, p.addr, p.ty) # 0
    THEN LenMeta(Len(mem[ObjAt(mem, p.addr, p.ty)].elems))
    ELSE LenMeta(ub.n)

Vec_target_data_address(mem, p, ub) ==
    IF ObjAt(mem, p.addr, p.ty) # 0
    THEN mem[ObjAt(mem, p.addr, p.ty)].buf
    ELSE ub.addr

\* A variant without the assertion.
FixedStringWithLen_target_metadata_unchecked(mem, p, ub) ==
    IF ObjAt(mem, p.addr, p.ty) # 0
    THEN LenMeta(mem[ObjAt(mem, p.addr, p.ty)].val)
    ELSE LenMeta(ub.n)

\* impl Unsize<str> for FixedStringWithLen<N>: let len = (*self).0;
\* assert!(len <= N); len
FixedStringWithLen_target_metadata(mem, p, ub) ==
    LET len == IF ObjAt(mem, p.addr, p.ty) # 0
               THEN mem[ObjAt(mem, p.addr, p.ty)].val
               ELSE ub.n
    IN IF len <= p.ty.n THEN LenMeta(len) ELSE PanicMeta

\* addr_of!((*self).1): the place of the second field, nothing is read.
FixedStringWithLen_target_data_address(mem, p, ub) == p.addr + 8

\* Unsize::target_metadata and Unsize::target_data_address, by the pair's impl.
Unsize_target_metadata(mem, p, T, ub) ==
    IF NativeTier(p.ty, T) = "Unsize"
    THEN (IF p.ty = VecTy
          THEN Vec_target_metadata(mem, p, ub)
          ELSE FixedStringWithLen_target_metadata(mem, p, ub))
    ELSE Stable_Unsize_target_metadata(mem, p, T)

Unsize_target_data_address(mem, p, T, ub) ==
    IF NativeTier(p.ty, T) = "Unsize"
    THEN (IF p.ty = VecTy
          THEN Vec_target_data_address(mem, p, ub)
          ELSE FixedStringWithLen_target_data_address(mem, p, ub))
    ELSE Stable_Unsize_target_data_address(mem, p, T)

\* --------------------------------------------------------- coercion rules
\* What the rules build: a handle of a kind over pointee type T.
from_raw_parts(kind, T, addr, meta, a) ==
    [kind |-> kind, wrap |-> <<>>, ty |-> T, addr |-> addr, meta |-> meta, a |-> a]

\* &mut T -> &mut U
coerce_mut_to_mut(mem, h, T, ub) ==
    from_raw_parts("mut", T, Unsize_target_data_address(mem, Ptr(h), T, ub),
                   Unsize_target_metadata(mem, Ptr(h), T, ub), h.a)

\* &mut T -> &U
coerce_mut_to_ref(mem, h, T, ub) ==
    from_raw_parts("ref", T, Unsize_target_data_address(mem, Ptr(h), T, ub),
                   Unsize_target_metadata(mem, Ptr(h), T, ub), h.a)

\* &mut T -> *mut U
coerce_mut_to_mptr(mem, h, T, ub) ==
    from_raw_parts("mptr", T, Unsize_target_data_address(mem, Ptr(h), T, ub),
                   Unsize_target_metadata(mem, Ptr(h), T, ub), h.a)

\* &mut T -> *const U
coerce_mut_to_cptr(mem, h, T, ub) ==
    from_raw_parts("cptr", T, Unsize_target_data_address(mem, Ptr(h), T, ub),
                   Unsize_target_metadata(mem, Ptr(h), T, ub), h.a)

\* A variant that asks another object for the descriptor.
coerce_ref_to_ref_crossed(mem, h, T, ub) ==
    LET other == [Ptr(h) EXCEPT !.addr = IF h.addr = HdrAddr(1) THEN HdrAddr(2)
                                         ELSE HdrAddr(1)]
    IN from_raw_parts("ref", T, Unsize_target_data_address(mem, Ptr(h), T, ub),
                      Unsize_target_metadata(mem, other, T, ub), h.a)

\* &T -> &U
coerce_ref_to_ref(mem, h, T, ub) ==
    from_raw_parts("ref", T, Unsize_target_data_address(mem, Ptr(h), T, ub),
                   Unsize_target_metadata(mem, Ptr(h), T, ub), h.a)

\* &T -> *const U
coerce_ref_to_cptr(mem, h, T, ub) ==
    from_raw_parts("cptr", T, Unsize_target_data_address(mem, Ptr(h), T, ub),
                   Unsize_target_metadata(mem, Ptr(h), T, ub), h.a)

\* *mut T -> *mut U
coerce_mptr_to_mptr(mem, h, T, ub) ==
    from_raw_parts("mptr", T, Unsize_target_data_address(mem, Ptr(h), T, ub),
                   Unsize_target_metadata(mem, Ptr(h), T, ub), h.a)

\* A variant that casts the source address instead of asking for the target's.
coerce_mptr_to_cptr_cast(mem, h, T, ub) ==
    from_raw_parts("cptr", T, h.addr, Unsize_target_metadata(mem, Ptr(h), T, ub), h.a)

\* *mut T -> *const U
coerce_mptr_to_cptr(mem, h, T, ub) ==
    from_raw_parts("cptr", T, Unsize_target_data_address(mem, Ptr(h), T, ub),
                   Unsize_target_metadata(mem, Ptr(h), T, ub), h.a)

\* *const T -> *const U
coerce_cptr_to_cptr(mem, h, T, ub) ==
    from_raw_parts("cptr", T, Unsize_target_data_address(mem, Ptr(h), T, ub),
                   Unsize_target_metadata(mem, Ptr(h), T, ub), h.a)

\* Box<T, A> -> Box<U, A>: into_raw_with_allocator, from_raw_parts_mut, from_raw_in.
coerce_box_to_box(mem, h, T, ub) ==
    LET this == Ptr(h)
        a == h.a
    IN from_raw_parts("box", T, Unsize_target_data_address(mem, this, T, ub),
                      Unsize_target_metadata(mem, this, T, ub), a)

\* Whether the static tier holds for a pair: a metadata function that needs no
\* value at all (ConstUnsize, or FromMetadataUnsize over Metadata = ()).
IsStatic(S, T) ==
    \/ NativeTier(S, T) = "ConstUnsize"
    \/ NativeTier(S, T) = "FromMetadataUnsize" /\ S.name \in {"Array", "I32"}

\* A variant of the bound: any Unsize impl will do.
ArcBound_unsize(S, T) == NativeTier(S, T) # "None"

\* The bound of the Arc rule: the static tier, strictly.
ArcBound(S, T) == IsStatic(S, T)

\* Arc<T> -> Arc<U>: Arc::into_raw, from_raw_parts, Arc::from_raw.
coerce_arc_to_arc(mem, h, T, ub) ==
    LET ptr == Ptr(h)
    IN from_raw_parts("arc", T, Unsize_target_data_address(mem, ptr, T, ub),
                      Unsize_target_metadata(mem, ptr, T, ub), h.a)

\* The (source kind, target kind) pairs that have an impl.
PtrRules == {<<"mut", "mut">>, <<"mut", "ref">>, <<"mut", "mptr">>, <<"mut", "cptr">>,
             <<"ref", "ref">>, <<"ref", "cptr">>, <<"mptr", "mptr">>,
             <<"mptr", "cptr">>, <<"cptr", "cptr">>, <<"box", "box">>}
ArcRules == {<<"arc", "arc">>}

\* The where clause of the impl chosen for a bare pointer kind.
HasImpl(k1, k2, S, T) ==
    \/ <<k1, k2>> \in PtrRules /\ NativeTier(S, T) # "None"
    \/ <<k1, k2>> \in ArcRules /\ ArcBound(S, T)

RECURSIVE HasCoerceUnsized(_, _, _, _, _)
\* Whether a handle type has a CoerceUnsized impl: Pin<P> and Cell<T> have one
\* where the wrapped P (T) has one, a bare pointer by the where clause of its rule.
HasCoerceUnsized(wrap, k1, k2, S, T) ==
    IF wrap # <<>>
    THEN HasCoerceUnsized(Tail(wrap), k1, k2, S, T)
    ELSE HasImpl(k1, k2, S, T)

RECURSIVE CoerceUnsized(_, _, _, _, _)

\* A variant that hands out the coerced pointer itself, not pinned.
coerce_pin_exposed(mem, h, k2, T, ub) ==
    CoerceUnsized(mem, [h EXCEPT !.wrap = Tail(@)], k2, T, ub)

\* impl CoerceUnsized<Pin<U>> for Pin<P>: Pin { pointer: self.pointer.coerce_unsized() }
coerce_pin(mem, h, k2, T, ub) ==
    LET inner == CoerceUnsized(mem, [h EXCEPT !.wrap = Tail(@)], k2, T, ub)
    IN [inner EXCEPT !.wrap = <<"Pin">> \o @]

\* impl CoerceUnsized<Cell<U>> for Cell<T>: Cell::new(self.into_inner().coerce_unsized())
coerce_cell(mem, h, k2, T, ub) ==
    LET inner == CoerceUnsized(mem, [h EXCEPT !.wrap = Tail(@)], k2, T, ub)
    IN [inner EXCEPT !.wrap = <<"Cell">> \o @]

\* CoerceUnsized::coerce_unsized, resolved by the type of self.
CoerceUnsized(mem, h, k2, T, ub) ==
    CASE h.wrap # <<>> /\ Head(h.wrap) = "Pin" -> coerce_pin(mem, h, k2, T, ub)
      [] h.wrap # <<>> /\ Head(h.wrap) = "Cell" -> coerce_cell(mem, h, k2, T, ub)
      [] h.wrap = <<>> /\ <<h.kind, k2>> = <<"mut", "mut">> -> coerce_mut_to_mut(mem, h, T, ub)
      [] h.wrap = <<>> /\ <<h.kind, k2>> = <<"mut", "ref">> -> coerce_mut_to_ref(mem, h, T, ub)
      [] h.wrap = <<>> /\ <<h.kind, k2>> = <<"mut", "mptr">> -> coerce_mut_to_mptr(mem, h, T, ub)
      [] h.wrap = <<>> /\ <<h.kind, k2>> = <<"mut", "cptr">> -> coerce_mut_to_cptr(mem, h, T, ub)
      [] h.wrap = <<>> /\ <<h.kind, k2>> = <<"ref", "ref">> -> coerce_ref_to_ref(mem, h, T, ub)
      [] h.wrap = <<>> /\ <<h.kind, k2>> = <<"ref", "cptr">> -> coerce_ref_to_cptr(mem, h, T, ub)
      [] h.wrap = <<>> /\ <<h.kind, k2>> = <<"mptr", "mptr">> -> coerce_mptr_to_mptr(mem, h, T, ub)
      [] h.wrap = <<>> /\ <<h.kind, k2>> = <<"mptr", "cptr">> -> coerce_mptr_to_cptr(mem, h, T, ub)
      [] h.wrap = <<>> /\ <<h.kind, k2>> = <<"cptr", "cptr">> -> coerce_cptr_to_cptr(mem, h, T, ub)
      [] h.wrap = <<>> /\ <<h.kind, k2>> = <<"box", "box">> -> coerce_box_to_box(mem, h, T, ub)
      [] h.wrap = <<>> /\ <<h.kind, k2>> = <<"arc", "arc">> -> coerce_arc_to_arc(mem, h, T, ub)

\* ------------------------------------------------------------- narrowing
\* <*const U>::to_raw_parts: (data address, metadata).
to_raw_parts(h) == <<h.addr, h.meta>>

\* A variant that keeps the descriptor on the reinterpreted reference.
wide_to_narrow_ref_wide(wide, T) ==
    from_raw_parts("ref", T, to_raw_parts(wide)[1], to_raw_parts(wide)[2], wide.a)

\* A variant that compares the vtable's type with the requested one first.
wide_to_narrow_ref_checked(wide, T) ==
    IF wide.meta.ty = TypeName(T)
    THEN from_raw_parts("ref", T, to_raw_parts(wide)[1], UnitMeta, wide.a)
    ELSE from_raw_parts("none", T, 0, PanicMeta, wide.a)

\* impl DispatchFromDyn<&'a U> for &'a T: &*address.cast()
wide_to_narrow_ref(wide, T) ==
    LET address == to_raw_parts(wide)[1]
    IN from_raw_parts("ref", T, address, UnitMeta, wide.a)

\* impl DispatchFromDyn<Box<U>> for Box<T>: Box::from_raw(address.cast())
wide_to_narrow_box(wide, T) ==
    LET address == to_raw_parts(wide)[1]
    IN from_raw_parts("box", T, address, UnitMeta, "Global")

RECURSIVE HasDispatchFromDyn(_, _, _, _, _)
\* Whether Self has a DispatchFromDyn<UnsizedSelf> impl: Pin<P> where P has one;
\* &T and Box<T> where T: Unsize<U> + Sized, U: Pointee<Metadata = DynMetadata<U>>.
HasDispatchFromDyn(wrap, kind, a, U, T) ==
    IF wrap # <<>>
    THEN Head(wrap) = "Pin" /\ HasDispatchFromDyn(Tail(wrap), kind, a, U, T)
    ELSE /\ kind \in {"ref", "box"}
         /\ kind = "box" => a = "Global"
         /\ U \in {DynTraitTy, DynSuperTy}
         /\ Sized(T) /\ NativeTier(T, U) # "None"

RECURSIVE wide_to_narrow(_, _)

\* impl DispatchFromDyn<Pin<U>> for Pin<P>:
\* Pin { pointer: DispatchFromDyn::wide_to_narrow(wide.pointer) }
wide_to_narrow_pin(wide, T) ==
    LET pointer == wide_to_narrow([wide EXCEPT !.wrap = Tail(@)], T)
    IN [pointer EXCEPT !.wrap = <<"Pin">> \o @]

\* DispatchFromDyn::wide_to_narrow, resolved by the type of Self.
wide_to_narrow(wide, T) ==
    CASE wide.wrap # <<>> -> wide_to_narrow_pin(wide, T)
      [] wide.wrap = <<>> /\ wide.kind = "ref" -> wide_to_narrow_ref(wide, T)
      [] wide.wrap = <<>> /\ wide.kind = "box" -> wide_to_narrow_box(wide, T)

\* ------------------------------------------------------------------ state
Kinds == {"ref", "mut", "cptr", "mptr", "box", "arc"}
RawKinds == {"cptr", "mptr"}
Wraps == UNION {[1..k -> {"Pin", "Cell"}] : k \in 0..MaxWrap}
Allocators == {"Global", "Arena"}
UBs == [addr : {0} \cup {HdrAddr(i) : i \in ObjIds}, n : 0..MaxLen]

\* What the reads of a rule may yield: anything when the rule reads a dead
\* instance, and nothing to choose otherwise.
UBFor(mem, h, T) ==
    IF NativeTier(h.ty, T) = "Unsize" /\ ObjAt(mem, h.addr, h.ty) = 0
    THEN UBs
    ELSE {[addr |-> 0, n |-> 0]}

\* A handle of the chain: the handle itself and what is known of its making
\* (moved: consumed by a later coercion; via: the kind it was coerced from, "new"
\* for a handle taken from an object; srcLive: the source designated a live
\* object when the rule ran).
Handle(core, via, srcLive) ==
    [kind |-> core.kind, wrap |-> core.wrap, ty |-> core.ty, addr |-> core.addr,
     meta |-> core.meta, a |-> core.a, moved |-> FALSE, via |-> via,
     srcLive |-> srcLive]

LiveAt(mem, a) == \E i \in ObjIds : HdrAddr(i) = a /\ mem[i].st = "live"

\* The object the chain's first handle was taken from.
ChainObj == IF chain = <<>> THEN 0 ELSE chain[1].addr \div 10

Last(c) == c[Len(c)]

\* coerce_unsized(self) takes self by value: a handle that is not Copy is gone.
Consumes(h) == h.kind \in {"mut", "box", "arc"} \/ "Cell" \in {h.wrap[k] : k \in 1..Len(h.wrap)}

\* No unmoved reference, Box or Arc of the chain designates object i.
Unborrowed(i) ==
    \/ ChainObj # i
    \/ \A k \in 1..Len(chain) : chain[k].moved \/ chain[k].kind \in RawKinds

Init ==
    /\ objs = [i \in ObjIds |-> NilObj]
    /\ chain = <<>>
    /\ rc = 0

\* A new value: an array, a Vec or an i32.
New(i) ==
    /\ objs[i].st = "nil" \/ (objs[i].st = "dead" /\ chain = <<>>)
    /\ \A j \in 1..(i - 1) : objs[j].st # "nil"
    /\ LET base == [st |-> "live", ty |-> I32Ty, elems |-> <<>>, val |-> 0,
                    cap |-> 0, buf |-> 0]
       IN \/ \E elems \in Seqs(MaxLen) :
               objs' = [objs EXCEPT ![i] =
                          [base EXCEPT !.ty = ArrayTy(Len(elems)), !.elems = elems]]
          \/ \E elems \in Seqs(MaxLen), cap \in 0..MaxLen :
               /\ Len(elems) <= cap
               /\ objs' = [objs EXCEPT ![i] =
                            [base EXCEPT !.ty = VecTy, !.elems = elems,
                                         !.cap = cap, !.buf = FirstBuf(i)]]
          \/ \E v \in IntValues :
               objs' = [objs EXCEPT ![i] = [base EXCEPT !.val = v]]
    /\ UNCHANGED <<chain, rc>>

\* Vec::push: grows the buffer (which may move) when it is full.
Push(i) ==
    /\ objs[i].st = "live" /\ objs[i].ty = VecTy
    /\ Len(objs[i].elems) < MaxLen
    /\ Unborrowed(i) /\ Len(chain) <= 1
    /\ \E v \in Values :
         IF Len(objs[i].elems) = objs[i].cap
         THEN \E cap \in (Len(objs[i].elems) + 1)..MaxLen, buf \in BufAddrs(i) :
                objs' = [objs EXCEPT ![i].elems = Append(@, v), ![i].cap = cap,
                                     ![i].buf = buf]
         ELSE objs' = [objs EXCEPT ![i].elems = Append(@, v)]
    /\ UNCHANGED <<chain, rc>>

\* Vec::pop: the capacity stays.
Pop(i) ==
    /\ objs[i].st = "live" /\ objs[i].ty = VecTy
    /\ objs[i].elems # <<>>
    /\ Unborrowed(i) /\ Len(chain) <= 1
    /\ objs' = [objs EXCEPT ![i].elems = SubSeq(@, 1, Len(@) - 1)]
    /\ UNCHANGED <<chain, rc>>

\* The value goes out of scope; raw addresses to it may remain.
Free(i) ==
    /\ objs[i].st = "live"
    /\ Unborrowed(i)
    /\ objs' = [objs EXCEPT ![i] = DeadObj]
    /\ UNCHANGED <<chain, rc>>

\* The program holds an Arc that nothing has consumed.
HoldsArc == chain # <<>> /\ Last(chain).kind = "arc" /\ ~Last(chain).moved

\* Arc::clone: another holder of the same allocation.
ArcClone ==
    /\ HoldsArc
    /\ rc < MaxRc
    /\ rc' = rc + 1
    /\ UNCHANGED <<objs, chain>>

\* Another holder drops its Arc.
ArcDrop ==
    /\ HoldsArc
    /\ rc > 1
    /\ rc' = rc - 1
    /\ UNCHANGED <<objs, chain>>

\* The program takes a handle to object i: &x, &mut x, a raw address, or the
\* value in a Box (Box::new_in) or an Arc (Arc::new), possibly inside Pin or Cell.
Take(i) ==
    /\ chain = <<>>
    /\ objs[i].st = "live"
    /\ \E kind \in Kinds, wrap \in Wraps, a \in Allocators :
         /\ kind # "box" => a = "Global"
         /\ chain' = <<Handle([kind |-> kind, wrap |-> wrap, ty |-> objs[i].ty,
                               addr |-> HdrAddr(i), meta |-> UnitMeta, a |-> a],
                              "new", TRUE)>>
         /\ rc' = IF kind = "arc" THEN 1 ELSE 0
    /\ UNCHANGED objs

\* handle.coerce_unsized() on the chain's last handle, to kind k2 over type T.
Coerce ==
    /\ chain # <<>> /\ Len(chain) < MaxChain
    /\ ~Last(chain).moved
    /\ \E k2 \in Kinds, T \in TargetTys :
         LET h == Last(chain) IN
         /\ HasCoerceUnsized(h.wrap, h.kind, k2, h.ty, T)
         /\ \E ub \in UBFor(objs, h, T) :
            chain' = Append([chain EXCEPT ![Len(chain)].moved = Consumes(h)],
                            Handle(CoerceUnsized(objs, h, k2, T, ub), h.kind,
                                   LiveAt(objs, h.addr)))
    /\ UNCHANGED <<objs, rc>>

\* The sized types that implement the traits.
Implementers == {I32Ty, StructTy}

\* Self::wide_to_narrow(handle) on the chain's last handle, for Self over type T.
Narrow ==
    /\ chain # <<>> /\ Len(chain) < MaxChain
    /\ ~Last(chain).moved
    /\ \E T \in Implementers :
         LET h == Last(chain) IN
         /\ HasDispatchFromDyn(h.wrap, h.kind, h.a, h.ty, T)
         /\ chain' = Append([chain EXCEPT ![Len(chain)].moved = Consumes(h)],
                            Handle(wide_to_narrow(h, T), "narrow",
                                   LiveAt(objs, h.addr)))
    /\ UNCHANGED <<objs, rc>>

\* A new value of a type that implements the traits: an i32 or a Struct.
NewImplementer(i) ==
    /\ objs[i].st = "nil" \/ (objs[i].st = "dead" /\ chain = <<>>)
    /\ \A j \in 1..(i - 1) : objs[j].st # "nil"
    /\ \/ \E v \in IntValues :
            objs' = [objs EXCEPT ![i] = [NilObj EXCEPT !.st = "live", !.val = v]]
       \/ objs' = [objs EXCEPT ![i] = [NilObj EXCEPT !.st = "live", !.ty = StructTy]]
    /\ UNCHANGED <<chain, rc>>

\* A new Foo { field: Bar { field: [..; N] } } or Bar { field: [..; N] }.
NewAdt(i) ==
    /\ objs[i].st = "nil" \/ (objs[i].st = "dead" /\ chain = <<>>)
    /\ \A j \in 1..(i - 1) : objs[j].st # "nil"
    /\ \E elems \in Seqs(MaxLen) :
         \/ objs' = [objs EXCEPT ![i] =
                       [NilObj EXCEPT !.st = "live", !.elems = elems,
                                      !.ty = FooTy(ArrayTy(Len(elems)))]]
         \/ objs' = [objs EXCEPT ![i] =
                       [NilObj EXCEPT !.st = "live", !.elems = elems,
                                      !.ty = BarTy(ArrayTy(Len(elems)))]]
    /\ UNCHANGED <<chain, rc>>

\* A new FixedString(bytes) or FixedStringWithLen(len, bytes); any usize may be
\* stored as len.
NewFixed(i) ==
    /\ objs[i].st = "nil" \/ (objs[i].st = "dead" /\ chain = <<>>)
    /\ \A j \in 1..(i - 1) : objs[j].st # "nil"
    /\ \E bytes \in Seqs(MaxLen) :
         \/ objs' = [objs EXCEPT ![i] =
                       [NilObj EXCEPT !.st = "live", !.elems = bytes,
                                      !.ty = FixedStringTy(Len(bytes))]]
         \/ \E len \in 0..(MaxLen + 1) :
               objs' = [objs EXCEPT ![i] =
                          [NilObj EXCEPT !.st = "live", !.elems = bytes, !.val = len,
                                         !.ty = FixedStringWithLenTy(Len(bytes))]]
    /\ UNCHANGED <<chain, rc>>

\* The program lets go of its handles: a Box frees its value, an Arc gives up
\* its count and the last one frees the value.
DropChain ==
    /\ chain # <<>>
    /\ LET h == Last(chain)
           i == ChainObj
       IN IF ~h.moved /\ (h.kind = "box" \/ (h.kind = "arc" /\ rc = 1))
             /\ objs[i].st = "live"
          THEN objs' = [objs EXCEPT ![i] = DeadObj]
          ELSE UNCHANGED objs
    /\ chain' = <<>>
    /\ rc' = 0

Next ==
    \/ \E i \in ObjIds : New(i)
    \/ \E i \in ObjIds : Push(i)
    \/ \E i \in ObjIds : Pop(i)
    \/ \E i \in ObjIds : Free(i)
    \/ ArcClone
    \/ ArcDrop
    \/ \E i \in ObjIds : Take(i)
    \/ Coerce
    \/ DropChain

Spec == Init /\ [][Next]_vars

\* Programs that make polymorphic handles and narrow them again.
NarrowNext ==
    \/ \E i \in ObjIds : NewImplementer(i)
    \/ \E i \in ObjIds : Free(i)
    \/ \E i \in ObjIds : Take(i)
    \/ Coerce
    \/ Narrow
    \/ DropChain

NarrowSpec == Init /\ [][NarrowNext]_vars

\* Programs that coerce structs through their last field.
AdtNext ==
    \/ \E i \in ObjIds : NewAdt(i)
    \/ \E i \in ObjIds : Free(i)
    \/ \E i \in ObjIds : Take(i)
    \/ Coerce
    \/ DropChain

AdtSpec == Init /\ [][AdtNext]_vars

\* Programs that coerce the fixed-size string buffers, next to the other values.
FixedNext ==
    \/ \E i \in ObjIds : NewFixed(i)
    \/ \E i \in ObjIds : New(i)
    \/ \E i \in ObjIds : Free(i)
    \/ \E i \in ObjIds : Take(i)
    \/ Coerce
    \/ DropChain

FixedSpec == Init /\ [][FixedNext]_vars

\* ================================================================ claims
\* The coercion steps of the chain: chain[k] was made from chain[k - 1].
Steps == 2..Len(chain)
NoUB == [addr |-> 0, n |-> 0]
PtrKinds == {"ref", "mut", "cptr", "mptr"}

\* The descriptor of handle r describes object i, which its address designates.
Describes(mem, r, i) ==
    /\ mem[i].st = "live"
    /\ CASE r.ty = SliceTy ->
              /\ mem[i].ty.name \in {"Array", "Vec"}
              /\ r.addr = ElemBase(mem, i)
              /\ r.meta = LenMeta(Len(mem[i].elems))
         [] r.ty = DynTraitTy ->
              /\ mem[i].ty = I32Ty /\ r.addr = HdrAddr(i)
              /\ r.meta = VtMeta("Trait", "i32")
         [] r.ty = DynSuperTy ->
              /\ mem[i].ty = I32Ty /\ r.addr = HdrAddr(i)
              /\ r.meta = VtMeta("Super", "i32")
         [] OTHER -> FALSE

\* C1: every result of a reference, raw address or Box rule (also inside Pin or
\* Cell) made from a live source carries the address that target_data_address
\* gives and the descriptor that target_metadata gives for that same source, and
\* that descriptor describes the object the address designates: the source
\* object, never another one.
C1_Pairing ==
    \A k \in Steps :
        LET src == chain[k - 1]
            res == chain[k]
        IN (res.kind # "arc" /\ res.srcLive /\ LiveAt(objs, src.addr)) =>
              /\ res.addr = Unsize_target_data_address(objs, Ptr(src), res.ty, NoUB)
              /\ res.meta = Unsize_target_metadata(objs, Ptr(src), res.ty, NoUB)
              /\ Describes(objs, res, ChainObj)
              /\ \A j \in ObjIds \ {ChainObj} :
                    objs[j].st = "live" => res.addr # ElemBase(objs, j)

\* A reference to a Vec was coerced while another Vec of another length is live.
C1_Witness ==
    /\ Len(chain) >= 2
    /\ chain[1].ty = VecTy /\ chain[2].kind = "ref" /\ chain[2].srcLive
    /\ LiveAt(objs, chain[1].addr)
    /\ \E j \in ObjIds \ {ChainObj} :
          /\ objs[j].st = "live" /\ objs[j].ty = VecTy
          /\ Len(objs[j].elems) # Len(objs[ChainObj].elems)

\* C2: a reference or raw address to an array [T; N], coerced to a slice, has
\* descriptor N and the array's own address, and the N elements read through it
\* are the array's elements in order.
C2_ArrayToSlice ==
    \A k \in Steps :
        LET src == chain[k - 1]
            res == chain[k]
        IN (src.ty.name = "Array" /\ res.ty = SliceTy /\ res.kind \in PtrKinds) =>
              /\ res.meta = LenMeta(src.ty.n)
              /\ res.addr = src.addr
              /\ LiveAt(objs, src.addr) =>
                    /\ src.ty.n = Len(objs[ChainObj].elems)
                    /\ ReadSlice(objs, res.addr, res.meta.n) = objs[ChainObj].elems

\* A raw address to a live array of two different elements was coerced.
C2_Witness ==
    /\ Len(chain) >= 2
    /\ chain[1].ty = ArrayTy(2) /\ chain[2].ty = SliceTy /\ chain[2].kind = "cptr"
    /\ LiveAt(objs, chain[1].addr)
    /\ objs[ChainObj].elems[1] # objs[ChainObj].elems[2]

\* C3: a handle to a live Vec, coerced to a slice, has the Vec's current length
\* as descriptor, whatever its capacity, and the elements read through it are
\* the Vec's current elements.
C3_VecToSlice ==
    \A k \in Steps :
        LET src == chain[k - 1]
            res == chain[k]
        IN (src.ty = VecTy /\ res.ty = SliceTy /\ res.srcLive
            /\ LiveAt(objs, src.addr)) =>
              /\ res.meta = LenMeta(Len(objs[ChainObj].elems))
              /\ ReadSlice(objs, res.addr, res.meta.n) = objs[ChainObj].elems

\* A reference to a Vec holding one element in a larger buffer was coerced.
C3_Witness ==
    /\ Len(chain) >= 2
    /\ chain[1].ty = VecTy /\ chain[2].ty = SliceTy /\ chain[2].kind = "ref"
    /\ LiveAt(objs, chain[1].addr)
    /\ Len(objs[ChainObj].elems) = 1
    /\ objs[ChainObj].cap > 1

StableTiers == {"StableUnsize", "FromMetadataUnsize", "ConstUnsize"}
MetadataTiers == {"FromMetadataUnsize", "ConstUnsize"}

\* C4: for every pointer the program holds and every target its type reaches by
\* a StableUnsize, FromMetadataUnsize or static impl, the derived
\* target_data_address is the pointer's own address, whether or not the pointee
\* is live; so is the address of every handle coerced that way.
C4_AddressStable ==
    /\ \A k \in 1..Len(chain) :
          \A T \in {U \in TargetTys : NativeTier(chain[k].ty, U) \in StableTiers} :
             \A ub \in UBs :
                Unsize_target_data_address(objs, Ptr(chain[k]), T, ub) = chain[k].addr
    /\ \A k \in Steps :
          NativeTier(chain[k - 1].ty, chain[k].ty) \in StableTiers =>
             chain[k].addr = chain[k - 1].addr

\* A pointer to an array was coerced and then the array went away.
C4_Witness ==
    /\ Len(chain) >= 2
    /\ chain[1].ty.name = "Array" /\ chain[2].ty = SliceTy
    /\ ~LiveAt(objs, chain[1].addr)

\* C5: an Arc is coerced only over a pair of the static tier, the address of the
\* resulting Arc is the payload address of the source Arc, and the pair's
\* address rule can give no other address; no Arc of a Vec is ever coerced.
C5_ArcStatic ==
    \A k \in Steps :
        LET src == chain[k - 1]
            res == chain[k]
        IN res.kind = "arc" =>
              /\ IsStatic(src.ty, res.ty)
              /\ src.ty # VecTy
              /\ res.addr = src.addr
              /\ res.addr = HdrAddr(ChainObj)
              /\ \A ub \in UBs :
                    Unsize_target_data_address(objs, Ptr(src), res.ty, ub) = src.addr

\* An Arc of an array that another holder shares was coerced to an Arc of a slice.
C5_Witness ==
    /\ Len(chain) >= 2
    /\ chain[1].kind = "arc" /\ chain[1].ty = ArrayTy(2)
    /\ chain[2].kind = "arc" /\ chain[2].ty = SliceTy
    /\ rc = 2

\* C6: a Box is coerced only over an address-stable pair, and the address the
\* resulting Box holds is the address the source Box held.
C6_BoxAddressKept ==
    \A k \in Steps :
        LET src == chain[k - 1]
            res == chain[k]
        IN res.kind = "box" =>
              /\ NativeTier(src.ty, res.ty) \in StableTiers
              /\ res.addr = src.addr

\* The allocation an address is the start of: an object's own, or a Vec's buffer.
AllocAt(mem, a) ==
    IF \E i \in ObjIds : mem[i].st = "live" /\ HdrAddr(i) = a
    THEN <<a \div 10, "value">>
    ELSE IF \E i \in ObjIds : mem[i].st = "live" /\ mem[i].ty = VecTy /\ mem[i].buf = a
         THEN <<CHOOSE i \in ObjIds :
                    mem[i].st = "live" /\ mem[i].ty = VecTy /\ mem[i].buf = a, "buffer">>
         ELSE <<0, "none">>

\* C7: an owning coercion frees and duplicates nothing: it leaves every object
\* and every Arc count as they were; a Box coercion consumes the source Box and
\* leaves exactly one Box, which owns the same allocation with the same
\* allocator handle.
C7_Conservation ==
    [][(chain # <<>> /\ Len(chain') = Len(chain) + 1
        /\ chain'[Len(chain')].kind \in {"box", "arc"}) =>
          /\ objs' = objs /\ rc' = rc
          /\ chain'[Len(chain')].kind = "box" =>
                /\ chain'[Len(chain)].moved
                /\ Cardinality({k \in 1..Len(chain') :
                                   chain'[k].kind = "box" /\ ~chain'[k].moved}) = 1
                /\ chain'[Len(chain')].a = chain[Len(chain)].a
                /\ AllocAt(objs, chain'[Len(chain')].addr)
                      = AllocAt(objs, chain[Len(chain)].addr)]_vars

\* C8: for every pointer the program holds and every target its type reaches by
\* a FromMetadataUnsize or static impl, the pair also has the weaker impls every
\* pointer rule asks for, the derived StableUnsize and Unsize target_metadata
\* both equal the FromMetadataUnsize function of the pointer's own metadata, and
\* the derived Unsize target_data_address is the pointer's address; a handle
\* coerced over such a pair carries exactly these.
C8_TierImplication ==
    /\ \A k \in 1..Len(chain) :
          LET p == Ptr(chain[k]) IN
          \A T \in {U \in TargetTys : NativeTier(p.ty, U) \in MetadataTiers} :
             /\ \A r \in PtrRules : HasImpl(r[1], r[2], p.ty, T)
             /\ StableUnsize_target_metadata(objs, p, T)
                   = FromMetadataUnsize_target_metadata(p.ty, T, p.meta)
             /\ \A ub \in UBs :
                   /\ Unsize_target_metadata(objs, p, T, ub)
                         = FromMetadataUnsize_target_metadata(p.ty, T, p.meta)
                   /\ Unsize_target_data_address(objs, p, T, ub) = p.addr
    /\ \A k \in Steps :
          LET src == chain[k - 1]
              res == chain[k]
          IN NativeTier(src.ty, res.ty) \in MetadataTiers =>
                /\ res.meta = FromMetadataUnsize_target_metadata(src.ty, res.ty, src.meta)
                /\ res.addr = src.addr

\* A live reference to an array was coerced to a slice by the &T -> &U rule.
C8_Witness ==
    /\ Len(chain) >= 2
    /\ chain[1].ty = ArrayTy(1) /\ chain[1].kind = "ref"
    /\ chain[2].ty = SliceTy /\ chain[2].kind = "ref"
    /\ LiveAt(objs, chain[1].addr)

\* Every address a pointer may hold: of a live object, of a dead one, of nothing.
AllAddrs == {0} \cup {HdrAddr(i) : i \in ObjIds} \cup UNION {BufAddrs(i) : i \in ObjIds}

\* C9: over a FromMetadataUnsize or static pair the target descriptor depends
\* on the source pointer's type and metadata alone: a pointer with the metadata
\* of one the program holds, at any other address (another object, with other
\* contents, a dead one, none at all), gets the same descriptor.
C9_MetadataOnly ==
    \A k \in 1..Len(chain) :
        LET p == Ptr(chain[k]) IN
        \A T \in {U \in TargetTys : NativeTier(p.ty, U) \in MetadataTiers} :
           /\ \A a \in AllAddrs, ub \in UBs :
                 Unsize_target_metadata(objs, [p EXCEPT !.addr = a], T, ub)
                    = Unsize_target_metadata(objs, p, T, NoUB)
           /\ Unsize_target_metadata(objs, p, T, NoUB)
                 = FromMetadataUnsize_target_metadata(p.ty, T, p.meta)

\* A raw dyn Trait handle was upcast to dyn Super after its value had gone.
C9_Witness ==
    /\ Len(chain) = 3
    /\ chain[2].ty = DynTraitTy /\ chain[3].ty = DynSuperTy
    /\ ~chain[3].srcLive

Digits == <<"0", "1", "2", "3", "4", "5", "6", "7", "8", "9">>

RECURSIVE to_string(_)
\* alloc::string::ToString::to_string of an i32, as its characters.
to_string(v) ==
    IF v < 0 THEN <<"-">> \o to_string(0 - v)
    ELSE IF v < 10 THEN <<Digits[v + 1]>>
    ELSE Append(to_string(v \div 10), Digits[(v % 10) + 1])

\* (*handle).as_super_string(): dispatch through the handle's vtable; <<"?">> when
\* the vtable is not dyn Super's for the value behind the address.
as_super_string(mem, h) ==
    IF h.meta = VtMeta("Super", "i32") /\ ObjAt(mem, h.addr, I32Ty) # 0
    THEN to_string(mem[ObjAt(mem, h.addr, I32Ty)].val)
    ELSE <<"?">>

\* C10: a handle to an i32 coerced to dyn Trait and then to dyn Super has the
\* address and the descriptor of the same handle coerced to dyn Super directly,
\* and as_super_string through either is the value's to_string.
C10_UpcastTransitive ==
    \A k \in Steps :
        (k >= 3 /\ chain[k - 2].ty = I32Ty /\ chain[k - 1].ty = DynTraitTy
         /\ chain[k].ty = DynSuperTy) =>
           LET direct == CoerceUnsized(objs, chain[k - 2], chain[k].kind, DynSuperTy, NoUB)
           IN /\ chain[k].addr = direct.addr
              /\ chain[k].meta = direct.meta
              /\ LiveAt(objs, chain[k].addr) =>
                    /\ as_super_string(objs, chain[k]) = as_super_string(objs, direct)
                    /\ as_super_string(objs, chain[k]) = to_string(objs[ChainObj].val)

\* The raw-address upcast of the test: *const i32 -> *const dyn Trait -> *const dyn Super.
C10_Witness ==
    /\ Len(chain) = 3
    /\ chain[1].kind = "cptr" /\ chain[2].kind = "cptr" /\ chain[3].kind = "cptr"
    /\ chain[3].ty = DynSuperTy
    /\ LiveAt(objs, chain[3].addr)
    /\ objs[ChainObj].val = 7

\* The wrapper nestings the compositional law is evaluated over.
MaxNest == 2
Nestings == UNION {[1..k -> {"Pin", "Cell"}] : k \in 0..MaxNest}

\* The handle fields a rule returns.
Core(h) == [kind |-> h.kind, wrap |-> h.wrap, ty |-> h.ty, addr |-> h.addr,
            meta |-> h.meta, a |-> h.a]

\* C11: coercing a handle inside Pin or Cell gives the same wrappers around the
\* coerced inner handle, with the address and descriptor of coercing the inner
\* handle alone, and is possible exactly when the inner coercion is; the same
\* holds for the handle the program holds under every nesting of Pin and Cell.
C11_WrapperCompositional ==
    /\ \A k \in Steps :
          LET src == chain[k - 1]
              res == chain[k]
              inner == CoerceUnsized(objs, [src EXCEPT !.wrap = <<>>], res.kind,
                                     res.ty, NoUB)
          IN (src.wrap # <<>>
              /\ (NativeTier(src.ty, res.ty) = "Unsize"
                    => res.srcLive /\ LiveAt(objs, src.addr))) =>
                /\ Core(res) = [inner EXCEPT !.wrap = src.wrap]
                /\ res.addr = inner.addr /\ res.meta = inner.meta
    /\ chain # <<>> =>
          LET h == Last(chain) IN
          \A k2 \in Kinds, T \in TargetTys :
             IF HasImpl(h.kind, k2, h.ty, T)
             THEN \A w \in Nestings :
                     /\ HasCoerceUnsized(w, h.kind, k2, h.ty, T)
                     /\ \A ub \in UBFor(objs, h, T) :
                           LET bare == CoerceUnsized(objs, [h EXCEPT !.wrap = <<>>],
                                                     k2, T, ub)
                           IN CoerceUnsized(objs, [h EXCEPT !.wrap = w], k2, T, ub)
                                 = [bare EXCEPT !.wrap = w]
             ELSE \A w \in Nestings : ~HasCoerceUnsized(w, h.kind, k2, h.ty, T)

\* A Cell<&Vec<T>> over a live Vec of two elements was coerced to a Cell<&[T]>.
C11_Witness ==
    /\ Len(chain) >= 2
    /\ chain[1].wrap = <<"Cell">> /\ chain[1].kind = "ref" /\ chain[1].ty = VecTy
    /\ chain[2].wrap = <<"Cell">> /\ chain[2].ty = SliceTy
    /\ LiveAt(objs, chain[1].addr) /\ Len(objs[ChainObj].elems) = 2

\* What each of the nine pointer rules returns for one source pointer and target.
NineRules(mem, h, T, ub) ==
    {coerce_mut_to_mut(mem, h, T, ub), coerce_mut_to_ref(mem, h, T, ub),
     coerce_mut_to_mptr(mem, h, T, ub), coerce_mut_to_cptr(mem, h, T, ub),
     coerce_ref_to_ref(mem, h, T, ub), coerce_ref_to_cptr(mem, h, T, ub),
     coerce_mptr_to_mptr(mem, h, T, ub), coerce_mptr_to_cptr(mem, h, T, ub),
     coerce_cptr_to_cptr(mem, h, T, ub)}

\* C17: for a live source and a target, each of the nine pointer rules returns
\* the address and the descriptor that the rule which made the handle returned,
\* between them they return every pointer kind and nothing else differs, and a
\* coercion step leaves every object as it was.
C17_RulesAgree ==
    /\ [](\A k \in Steps :
            LET src == chain[k - 1]
                res == chain[k]
            IN (src.kind \in PtrKinds /\ res.kind \in PtrKinds /\ res.srcLive
                /\ LiveAt(objs, src.addr)) =>
                  /\ \A r \in NineRules(objs, src, res.ty, NoUB) :
                        /\ r.addr = res.addr /\ r.meta = res.meta
                        /\ r.ty = res.ty /\ r.wrap = <<>>
                  /\ {r.kind : r \in NineRules(objs, src, res.ty, NoUB)} = PtrKinds
                  /\ Cardinality(NineRules(objs, src, res.ty, NoUB)) = 4)
    /\ [][(chain # <<>> /\ Len(chain') = Len(chain) + 1) => objs' = objs]_vars

\* A *mut Vec<T> of a live Vec was coerced to a *const [T].
C17_Witness ==
    /\ Len(chain) >= 2
    /\ chain[1].kind = "mptr" /\ chain[1].ty = VecTy /\ chain[1].wrap = <<>>
    /\ chain[2].kind = "cptr" /\ chain[2].ty = SliceTy
    /\ chain[2].srcLive /\ LiveAt(objs, chain[1].addr)
    /\ Len(objs[ChainObj].elems) = 1

\* C18: every coercion step that evaluated a target_metadata or
\* target_data_address rule which reads the instance (Vec's length and buffer
\* pointer) did so on a pointer to a live instance of the source type, the steps
\* of the raw-address rules included.
C18_LiveCalls ==
    \A k \in Steps :
        LET src == chain[k - 1]
            res == chain[k]
        IN NativeTier(src.ty, res.ty) = "Unsize" => res.srcLive

\* The narrowing steps of the chain: chain[k] is wide_to_narrow(chain[k - 1]).
NarrowSteps == {k \in 2..Len(chain) : chain[k].via = "narrow"}

\* C13: a narrowed handle has no descriptor and the address of the wide handle
\* it was made from, in the same kind and the same Pin wrappers, and is Pin
\* around the narrowing of the inner pointer; narrowing what coerce_unsized made
\* from a handle to a value gives back that handle's address (the value's) and,
\* for the same type, that handle; narrowing a Box consumes it and leaves one
\* Box, which owns the value's allocation.
C13_NarrowInverse ==
    \A k \in NarrowSteps :
        LET wide == chain[k - 1]
            nar == chain[k]
        IN /\ nar.addr = wide.addr /\ nar.meta = UnitMeta /\ Sized(nar.ty)
           /\ nar.kind = wide.kind /\ nar.wrap = wide.wrap
           /\ Core(nar) = [wide_to_narrow([wide EXCEPT !.wrap = <<>>], nar.ty)
                              EXCEPT !.wrap = wide.wrap]
           /\ (k >= 3 /\ wide.via # "narrow") =>
                 /\ nar.addr = chain[k - 2].addr
                 /\ nar.addr = HdrAddr(ChainObj)
                 /\ nar.ty = chain[k - 2].ty =>
                       Core(nar) = [Core(chain[k - 2]) EXCEPT !.kind = nar.kind]
           /\ wide.kind = "box" =>
                 /\ wide.moved
                 /\ Cardinality({j \in 1..Len(chain) :
                                    chain[j].kind = "box" /\ ~chain[j].moved}) = 1
                 /\ LiveAt(objs, nar.addr) =>
                       AllocAt(objs, nar.addr) = <<ChainObj, "value">>

\* A Pin<Box<i32>> of the value 7 was coerced to Pin<Box<dyn Trait>> and narrowed
\* to a Pin<Box<i32>> again.
C13_Witness ==
    /\ Len(chain) = 3
    /\ chain[1].wrap = <<"Pin">> /\ chain[1].kind = "box" /\ chain[1].ty = I32Ty
    /\ chain[2].ty = DynTraitTy /\ chain[2].via # "narrow"
    /\ chain[3].via = "narrow" /\ chain[3].ty = I32Ty
    /\ LiveAt(objs, chain[3].addr) /\ objs[ChainObj].val = 7

\* The vtables a dyn Trait or dyn Super handle may carry.
VtMetas == {VtMeta(tr, TypeName(S)) : tr \in {"Trait", "Super"}, S \in Implementers}

\* C14: every narrowing returned a handle (a reference or a Box, never an
\* error) at the wide handle's address, and the same one for every vtable the
\* wide handle might have carried; and for the wide handle the program holds,
\* wide_to_narrow returns a handle at its address for every type that has the
\* impl, whatever type its vtable belongs to.
C14_NoMetadataCheck ==
    /\ \A k \in NarrowSteps :
          LET wide == chain[k - 1]
              nar == chain[k]
          IN /\ nar.kind \in {"ref", "box"} /\ nar.meta # PanicMeta
             /\ nar.addr = wide.addr
             /\ \A m \in VtMetas :
                   wide_to_narrow([wide EXCEPT !.meta = m], nar.ty) = Core(nar)
    /\ chain # <<>> =>
          LET h == Last(chain) IN
          \A T \in Implementers :
             HasDispatchFromDyn(h.wrap, h.kind, h.a, h.ty, T) =>
                /\ wide_to_narrow(h, T).kind \in {"ref", "box"}
                /\ wide_to_narrow(h, T).addr = h.addr
                /\ wide_to_narrow(h, T).meta = UnitMeta

\* A &dyn Trait made from a Struct, carrying the vtable of Struct, was narrowed
\* to a &i32.
C14_Witness ==
    /\ Len(chain) = 3
    /\ chain[1].ty = StructTy /\ chain[2].kind = "ref" /\ chain[2].wrap = <<>>
    /\ chain[2].ty = DynTraitTy /\ chain[2].meta = VtMeta("Trait", "Struct")
    /\ chain[3].via = "narrow" /\ chain[3].ty = I32Ty
    /\ LiveAt(objs, chain[3].addr)

\* A pointer to the last field of the struct p points to (at the same address).
FieldPtr(p) == [ty |-> LastField(p.ty), addr |-> p.addr, meta |-> p.meta]

\* C12: a handle to a Foo<[T; N]> or Bar<[T; N]> coerced to Foo<[T]> or Bar<[T]>
\* has the descriptor that coercing a pointer to its last field gives, and to
\* that field's last field in turn, which is N; its address is the source's;
\* and the N elements read at the innermost field through it are the original
\* elements.
C12_LastFieldDelegation ==
    \A k \in Steps :
        LET src == chain[k - 1]
            res == chain[k]
            field == FieldPtr(Ptr(src))
        IN src.ty.name \in {"Foo<Array>", "Bar<Array>"} =>
              /\ res.ty.name \in {"Foo<Slice>", "Bar<Slice>"}
              /\ res.meta = Unsize_target_metadata(objs, field, LastField(res.ty), NoUB)
              /\ src.ty.name = "Foo<Array>" =>
                    res.meta = Unsize_target_metadata(objs, FieldPtr(field),
                                                      LastField(LastField(res.ty)), NoUB)
              /\ res.meta = LenMeta(src.ty.n)
              /\ res.addr = src.addr
              /\ LiveAt(objs, src.addr) =>
                    /\ src.ty.n = Len(objs[ChainObj].elems)
                    /\ ReadSlice(objs, res.addr, res.meta.n) = objs[ChainObj].elems

\* A reference to a live Foo { field: Bar { field: [a, b] } } with a # b was
\* coerced to a &Foo<[T]>.
C12_Witness ==
    /\ Len(chain) >= 2
    /\ chain[1].ty = FooTy(ArrayTy(2)) /\ chain[1].kind = "ref"
    /\ chain[2].ty = FooTy(SliceTy) /\ chain[2].kind = "ref"
    /\ LiveAt(objs, chain[1].addr)
    /\ objs[ChainObj].elems[1] # objs[ChainObj].elems[2]

\* C15: every coercion made was over a pair whose impl the rule's where clause
\* accepts; the handle the program holds can be coerced only to targets its type
\* has an accepted impl for, and to a dyn target only from a sized type or, by
\* upcasting, from dyn Trait; and although an impl of the static tier is
\* declared for (str, dyn Trait), a handle to a str can be coerced to nothing.
C15_TierRequired ==
    /\ DeclaredTier(StrTy, DynTraitTy) = "ConstUnsize"
    /\ \A k \in Steps :
          LET src == chain[k - 1]
              res == chain[k]
          IN /\ HasImpl(src.kind, res.kind, src.ty, res.ty)
             /\ NativeTier(src.ty, res.ty) # "None"
             /\ src.ty # StrTy
    /\ chain # <<>> =>
          LET h == Last(chain) IN
          \A k2 \in Kinds, T \in TargetTys :
             HasCoerceUnsized(h.wrap, h.kind, k2, h.ty, T) =>
                /\ NativeTier(h.ty, T) # "None"
                /\ h.ty # StrTy
                /\ T \in {DynTraitTy, DynSuperTy} => (Sized(h.ty) \/ h.ty = DynTraitTy)

\* The program holds a &str to a live FixedString, made by coercion.
C15_Witness ==
    /\ Len(chain) = 2
    /\ chain[1].ty.name = "FixedString" /\ chain[2].ty = StrTy
    /\ chain[2].kind = "ref" /\ ~chain[2].moved
    /\ LiveAt(objs, chain[1].addr)

\* C16 as claimed: no coercion of a handle to a live source ended in an abort
\* or in anything but a target handle.
C16_NoAbort ==
    \A k \in Steps :
        chain[k].srcLive => (chain[k].meta # PanicMeta /\ chain[k].kind \in Kinds)

\* C16 as amended: a coercion of a handle to a live source ended in an abort
\* exactly when the source was a FixedStringWithLen<N> whose stored length
\* exceeded N; every other one returned a target handle, which for a
\* FixedStringWithLen has the stored length as descriptor and the address of
\* the byte buffer.
C16_AbortOnlyOversize ==
    \A k \in Steps :
        LET src == chain[k - 1]
            res == chain[k]
        IN res.srcLive =>
              /\ res.kind \in Kinds
              /\ res.meta = PanicMeta => src.ty.name = "FixedStringWithLen"
              /\ (LiveAt(objs, src.addr) /\ src.ty.name = "FixedStringWithLen") =>
                    /\ res.meta = PanicMeta <=> objs[ChainObj].val > src.ty.n
                    /\ res.meta # PanicMeta =>
                          /\ res.meta = LenMeta(objs[ChainObj].val)
                          /\ res.addr = ElemBase(objs, ChainObj)

\* A reference to a live FixedStringWithLen<1> that stores the length 2 was
\* coerced, and the coercion panicked.
C16_Witness ==
    /\ Len(chain) = 2
    /\ chain[1].ty = FixedStringWithLenTy(1) /\ chain[1].kind = "ref"
    /\ LiveAt(objs, chain[1].addr) /\ objs[ChainObj].val = 2
    /\ chain[2].srcLive /\ chain[2].meta = PanicMeta

====
